---- MODULE Spec2Model ----
(***************************************************************************)
(* Chess-Helper: the move-input core (app/src/chess.ts) and the            *)
(* directional piece map of the component board adapter                    *)
(* (app/src/chessboard/component-chessboard/index.ts).                     *)
(*                                                                         *)
(* Text is a sequence of one-character strings, a square (TArea) is a      *)
(* text of two characters, a piece (TPiece) is one character.              *)
(***************************************************************************)
EXTENDS Integers, Sequences, FiniteSets, TLC

VARIABLES
  pieces,         \* game.getPieces().getCollection(): sequence of [color, type, area]
  playingAs,      \* game.getPlayingAs(): 1 white, 2 black
  turn,           \* game.getTurn()
  pieceMap,       \* ComponentChessboard.pieceMap
  prevPieceMap,   \* pieceMap before the last onMove
  lastMove,       \* the last IMoveEvent handled (piece "" before the first)
  nMoves,         \* number of move events so far
  legalMoves,     \* the legality oracle: the set of legal <<from, to>>
  playersMove,    \* board.isPlayersMove()
  inputText,      \* the text given to parseMoveInput
  potentialMoves, \* IPotentialMoves handed to the resolver
  rawMoves,       \* legalMoves of getLegalMoves before excludeConflictingMoves
  legalResult,    \* the value getLegalMoves returned
  rtMove,         \* the move whose UCI text is parsed again
  rtResult,       \* getLegalMoves(board, parseMoveInput(text of rtMove))
  kbMoves,        \* narrowDownMoves: potentialMoves
  kbPiece,        \* narrowDownMoves: piece
  kbDirection,    \* narrowDownMoves: direction
  flipped,        \* game.getOptions().flipped
  narrowed,       \* the value narrowDownMoves returned (<<>> is null, <<m>> is m)
  phase,          \* position of the operation under check
  premoves,       \* game.premoves.getLegalMoves()
  kbTarget,       \* goKbAndMouse: targetSquare
  message,        \* the message posted by the last operation ("" when none)
  made,           \* the calls of board.makeMove of the last operation
  narrowCall,     \* the pieces narrowDownMoves was invoked with
  drawSeen,       \* pieceMap when the last ccHelper-draw event was dispatched
  kbSeen,         \* the map and the move count a keyboard gesture last read
  mode            \* game.getMode().name

vars == <<pieces, playingAs, turn, pieceMap, prevPieceMap, lastMove, nMoves,
          legalMoves, playersMove, inputText, potentialMoves, rawMoves,
          legalResult, rtMove, rtResult, kbMoves, kbPiece, kbDirection,
          flipped, narrowed, phase, premoves, kbTarget, message, made,
          narrowCall, drawSeen, kbSeen, mode>>

\* what a text input or a keyboard gesture reads and leaves behind
ioVars == <<premoves, kbTarget, message, made, narrowCall, mode>>
\* what the listeners of the draw event and the keyboard observe of the map
evVars == <<drawSeen, kbSeen>>

(***************************************************************************)
(* Characters, squares, pieces                                             *)
(***************************************************************************)
FileChars == {"a", "b", "c", "d", "e", "f", "g", "h"}
RankChars == {"1", "2", "3", "4", "5", "6", "7", "8"}
FileNames == <<"a", "b", "c", "d", "e", "f", "g", "h">>
RankNames == <<"1", "2", "3", "4", "5", "6", "7", "8">>

\* "abcdefgh".indexOf(c) + 1, and 0 for any other character
FileIndex(c) ==
  IF c \in FileChars THEN CHOOSE i \in 1..8 : FileNames[i] = c ELSE 0

\* Number(c) for a rank digit; 0 stands for NaN (no rank)
RankIndex(c) ==
  IF c \in RankChars THEN CHOOSE i \in 1..8 : RankNames[i] = c ELSE 0

\* character codes, as far as String.prototype.sort and < compare them
CharCode(c) ==
  CASE c = "." -> 46
    [] c \in RankChars -> 48 + RankIndex(c)
    [] c \in FileChars -> 96 + FileIndex(c)
    [] c = "k" -> 107
    [] c = "n" -> 110
    [] c = "p" -> 112
    [] c = "q" -> 113
    [] c = "r" -> 114
    [] OTHER -> 0

Sq(f, r) == <<FileNames[f], RankNames[r]>>

NoPromotion == ""      \* promotionPiece undefined

toLowerCase(c) ==
  CASE c = "Q" -> "q" [] c = "R" -> "r" [] c = "N" -> "n" [] c = "B" -> "b"
    [] c = "K" -> "k" [] c = "P" -> "p" [] c = "O" -> "o" [] OTHER -> c

validateSquareName(input) ==
  Len(input) = 2 /\ input[1] \in FileChars /\ input[2] \in RankChars

squareToCoords(square) == <<FileIndex(square[1]), RankIndex(square[2])>>

(***************************************************************************)
(* Notation parser                                                         *)
(***************************************************************************)
Min(a, b) == IF a < b THEN a ELSE b

\* String.prototype.slice(a, b) for 0 <= a <= b
Slice(s, a, b) == SubSeq(s, a + 1, Min(b, Len(s)))

\* s.replace(/[set]+/g, "")
StripChars(s, set) == SelectSeq(s, LAMBDA c : c \notin set)

\* A regular expression that is a sequence of atoms, anchored at both ends.
\* An atom [cls, opt, cap] matches one character of cls, may be skipped when
\* opt, and adds what it matched to capture group cap (0: none).
Atom(cls, opt, cap) == [cls |-> cls, opt |-> opt, cap |-> cap]
NoCaptures == [g \in 1..6 |-> <<>>]

RECURSIVE MatchAtoms(_, _, _, _, _)
MatchAtoms(pat, k, s, i, caps) ==
  IF k > Len(pat)
  THEN IF i > Len(s) THEN {caps} ELSE {}
  ELSE LET a == pat[k]
           take == IF i <= Len(s) /\ s[i] \in a.cls
                   THEN MatchAtoms(pat, k + 1, s, i + 1,
                          IF a.cap = 0 THEN caps
                          ELSE [caps EXCEPT ![a.cap] = Append(@, s[i])])
                   ELSE {}
       IN  IF take # {} THEN take
           ELSE IF a.opt THEN MatchAtoms(pat, k + 1, s, i, caps) ELSE {}

\* the captures of the first alternative that matches s, {} if none does
RECURSIVE FirstMatch(_, _)
FirstMatch(alts, s) ==
  IF alts = <<>> THEN {}
  ELSE LET m == MatchAtoms(Head(alts), 1, s, 1, NoCaptures)
       IN  IF m # {} THEN m ELSE FirstMatch(Tail(alts), s)

PieceLetters == {"R", "Q", "K", "N", "B", "r", "q", "k", "n", "b"}
PromotionLetters == {"q", "r", "n", "b", "Q", "R", "N", "B"}

\* /^([a-h])?(x)?([a-h])([1-8])(e\.?p\.?)?(=[qrnbQRNB])?[+#]?$/
pawnRegex ==
  LET base  == <<Atom(FileChars, TRUE, 1), Atom({"x"}, TRUE, 2),
                 Atom(FileChars, FALSE, 3), Atom(RankChars, FALSE, 4)>>
      ep    == <<Atom({"e"}, FALSE, 5), Atom({"."}, TRUE, 5),
                 Atom({"p"}, FALSE, 5), Atom({"."}, TRUE, 5)>>
      promo == <<Atom({"="}, FALSE, 6), Atom(PromotionLetters, FALSE, 6)>>
      tail  == <<Atom({"+", "#"}, TRUE, 0)>>
  IN  <<base \o ep \o promo \o tail, base \o ep \o tail,
        base \o promo \o tail, base \o tail>>

\* /^([RQKNBrqknb])([a-h])?([1-8])?(x)?([a-h])([1-8])?[+#]?$/
pieceRegex ==
  << <<Atom(PieceLetters, FALSE, 1), Atom(FileChars, TRUE, 2),
       Atom(RankChars, TRUE, 3), Atom({"x"}, TRUE, 4),
       Atom(FileChars, FALSE, 5), Atom(RankChars, TRUE, 6),
       Atom({"+", "#"}, TRUE, 0)>> >>

\* A character is a string of length one.  The characters a string cannot
\* hold here are written by their code point: "U+2000" is the one character
\* U+2000.
\* the white space of \s that a string holds as it is: space, tab, line
\* feed, carriage return, form feed, line tabulation (U+000B), no-break
\* space (U+00A0), ogham space mark (U+1680), byte order mark (U+FEFF)
PlainSpace == {" ", "\t", "\n", "\r", "\f", "", " ", " ", "﻿"}

\* the white space of \s written by code point: U+2000 to U+200A, the line
\* and paragraph separators, U+202F, U+205F, U+3000
NamedSpace ==
  {"U+2000", "U+2001", "U+2002", "U+2003", "U+2004", "U+2005", "U+2006",
   "U+2007", "U+2008", "U+2009", "U+200A", "U+2028", "U+2029", "U+202F",
   "U+205F", "U+3000"}

\* the characters \s matches:
\* [\t\n\v\f\r \u00a0\u1680\u2000-\u200a\u2028\u2029\u202f\u205f\u3000\ufeff]
WhiteSpace == PlainSpace \cup NamedSpace

\* the algebraic path with no test for the UCI shape
IsStrictUCINever(input) == FALSE

\* /^\s*[a-h][1-8][a-h][1-8][rqknb]?\s*$/
IsStrictUCI(input) ==
  LET core == StripChars(input, WhiteSpace)
      inner == \E i, j \in 1..Len(input) :
                 /\ i <= j
                 /\ \A k \in 1..Len(input) : (input[k] \in WhiteSpace) <=> (k < i \/ k > j)
  IN  /\ Len(core) \in {4, 5}
      /\ inner
      /\ core[1] \in FileChars /\ core[2] \in RankChars
      /\ core[3] \in FileChars /\ core[4] \in RankChars
      /\ (Len(core) = 5 => core[5] \in {"r", "q", "k", "n", "b"})

\* /[o0]{n}/i.test(s): n consecutive o, O or 0 anywhere in s
HasCastlingRun(s, n) ==
  \E i \in 1..Len(s) :
    /\ i + n - 1 <= Len(s)
    /\ \A k \in i..(i + n - 1) : s[k] \in {"o", "O", "0"}

Template(piece, from, to, promo) ==
  [piece |-> piece, from |-> from, to |-> to, promotionPiece |-> promo]

\* a captured group, or "." when the group did not take part
OrAny(group) == IF group = <<>> THEN "." ELSE group[1]

parseUCI(input) ==
  LET filteredSymbols == StripChars(input, {" ", "-"})
      fromSquare == Slice(filteredSymbols, 0, 2)
      toSquare   == Slice(filteredSymbols, 2, 4)
      promotion  == Slice(filteredSymbols, 4, 5)
  IN  IF validateSquareName(fromSquare) /\ validateSquareName(toSquare)
      THEN <<Template(".", fromSquare, toSquare,
                      IF promotion # <<>> THEN promotion[1] ELSE NoPromotion)>>
      ELSE <<>>

parseAlgebraic(input) ==
  LET moveString == StripChars(input, WhiteSpace \cup {"-", "(", ")"})
      pawnResult == FirstMatch(pawnRegex, moveString)
      pieceResult == FirstMatch(pieceRegex, moveString)
      pawnMoves ==
        IF pawnResult = {} THEN <<>>
        ELSE LET g == CHOOSE c \in pawnResult : TRUE
             IN  IF g[1] = g[3] THEN <<>>
                 ELSE <<Template("p", <<OrAny(g[1]), ".">>,
                                 <<OrAny(g[3]), OrAny(g[4])>>,
                                 IF g[6] # <<>> THEN toLowerCase(g[6][2])
                                 ELSE NoPromotion)>>
      pieceMoves ==
        IF pieceResult = {} THEN <<>>
        ELSE LET g == CHOOSE c \in pieceResult : TRUE
             IN  <<Template(toLowerCase(g[1][1]), <<OrAny(g[2]), OrAny(g[3])>>,
                            <<OrAny(g[5]), OrAny(g[6])>>, NoPromotion)>>
  IN  IF IsStrictUCI(input) THEN <<>>
      ELSE IF HasCastlingRun(moveString, 3)
      THEN <<Template("k", <<"e", "1">>, <<"c", "1">>, NoPromotion),
             Template("k", <<"e", "8">>, <<"c", "8">>, NoPromotion)>>
      ELSE IF HasCastlingRun(moveString, 2)
      THEN <<Template("k", <<"e", "1">>, <<"g", "1">>, NoPromotion),
             Template("k", <<"e", "8">>, <<"g", "8">>, NoPromotion)>>
      ELSE pawnMoves \o pieceMoves

parseMoveInput(input) == parseUCI(input) \o parseAlgebraic(input)

(***************************************************************************)
(* Legal move resolver and conflict resolution                             *)
(***************************************************************************)
\* the capability set of IChessboard the resolver reads
Board(ps, legal, isPlayersMove) ==
  [pieces |-> ps, legalMoves |-> legal, isPlayersMove |-> isPlayersMove]

\* ComponentChessboard.isLegalMove: find(game.getLegalMoves(), {from, to})
isLegalMove(board, fromSq, toSq) == <<fromSq, toSq>> \in board.legalMoves

\* ComponentChessboard.isPlayersMove: always in analysis mode, never when
\* the game has no getPlayingAs, else when the side to move is the player's
isPlayersMove(modeName, hasGetPlayingAs, sideToMove, side) ==
  IF modeName = "analysis" THEN TRUE
  ELSE IF ~hasGetPlayingAs THEN FALSE
  ELSE sideToMove = side

\* new RegExp(`^${pattern}$`).test(c) for a pattern and a text of one character
RegExpTest(pattern, c) == pattern = "." \/ pattern = c

\* new RegExp(`^${pattern}$`).test(area) for a from-pattern of two characters
RegExpTestArea(pattern, area) ==
  /\ Len(pattern) = Len(area)
  /\ \A i \in 1..Len(area) : RegExpTest(pattern[i], area[i])

\* the filter of getLegalMoves with the legality oracle left out
matchingPiecesAnyMove(board, move) ==
  LET toYCoord == squareToCoords(move.to)[2]
  IN  SelectSeq(board.pieces, LAMBDA p :
        /\ ~(p.type = "p" /\ toYCoord \in {1, 8} /\ move.promotionPiece = NoPromotion)
        /\ RegExpTest(move.piece, p.type)
        /\ RegExpTestArea(move.from, p.area))

\* the filter of getLegalMoves with no test for a missing promotion piece
matchingPiecesAnyRank(board, move) ==
  SelectSeq(board.pieces, LAMBDA p :
    /\ RegExpTest(move.piece, p.type)
    /\ RegExpTestArea(move.from, p.area)
    /\ isLegalMove(board, p.area, move.to))

\* the filter of getLegalMoves, in the order of the piece collection
matchingPieces(board, move) ==
  LET toYCoord == squareToCoords(move.to)[2]
  IN  SelectSeq(board.pieces, LAMBDA p :
        /\ ~(p.type = "p" /\ toYCoord \in {1, 8} /\ move.promotionPiece = NoPromotion)
        /\ RegExpTest(move.piece, p.type)
        /\ RegExpTestArea(move.from, p.area)
        /\ isLegalMove(board, p.area, move.to))

\* matchingPieces.map((piece) => ({...move, from: piece.area}))
movesOfTemplate(board, move) ==
  LET mp == matchingPieces(board, move)
  IN  [i \in 1..Len(mp) |-> [move EXCEPT !.from = mp[i].area]]

\* the forEach of getLegalMoves: the concatenation over the templates
RECURSIVE collectLegalMoves(_, _)
collectLegalMoves(board, templates) ==
  IF templates = <<>> THEN <<>>
  ELSE movesOfTemplate(board, Head(templates))
         \o collectLegalMoves(board, Tail(templates))

\* Array.prototype.sort on one-character strings
RECURSIVE SortChars(_)
SortChars(s) ==
  IF s = <<>> THEN <<>>
  ELSE LET c == Head(s)
           t == SortChars(Tail(s))
       IN  SelectSeq(t, LAMBDA x : CharCode(x) <= CharCode(c)) \o <<c>>
             \o SelectSeq(t, LAMBDA x : CharCode(x) > CharCode(c))

\* conflict resolution with the bishop and pawn rule left out
excludeConflictingMovesNoRule(moves) == moves

excludeConflictingMoves(moves) ==
  LET piecesString == SortChars([i \in 1..Len(moves) |-> moves[i].piece])
  IN  IF piecesString = <<"b", "p">>
      THEN <<moves[CHOOSE i \in 1..Len(moves) :
                     /\ moves[i].piece = "p"
                     /\ \A j \in 1..(i - 1) : moves[j].piece # "p"]>>
      ELSE moves

\* legalMoves of getLegalMoves when the forEach is done ([] on the early return)
rawLegalMoves(board, templates) ==
  IF Len(templates) = 0 \/ ~board.isPlayersMove THEN <<>>
  ELSE collectLegalMoves(board, templates)

getLegalMoves(board, templates) ==
  IF Len(templates) = 0 \/ ~board.isPlayersMove THEN <<>>
  ELSE excludeConflictingMoves(collectLegalMoves(board, templates))

\* the text from + to + promotion of a move
UCIText(m) ==
  m.from \o m.to
    \o (IF m.promotionPiece = NoPromotion THEN <<>> ELSE <<m.promotionPiece>>)

(***************************************************************************)
(* Keyboard move disambiguator                                             *)
(***************************************************************************)
GENERAL == "GENERAL"
LEFT == "LEFT"
RIGHT == "RIGHT"
KeyDirection == {GENERAL, LEFT, RIGHT}

\* pieceMap[piece] && pieceMap[piece][direction]
HasEntry(map, piece, direction) ==
  piece \in DOMAIN map /\ direction \in DOMAIN map[piece]

\* filter(...) and its length === 1 test, hits being the indices the filter
\* keeps: <<m>> for the one move kept, <<>> (null) otherwise
OnlyMove(moves, hits) ==
  IF Cardinality(hits) = 1 THEN <<moves[CHOOSE i \in hits : TRUE]>> ELSE <<>>

\* the callback of the forwardMoves filter has a block body that evaluates
\* move.from[0] === move.to[0] and returns nothing: undefined, which is falsy
forwardMovesCallback(move) == FALSE

\* the lookup that takes the GENERAL entry whatever the direction asked for
narrowByPieceMapAnyDirection(map, moves, piece, direction) ==
  IF piece \in {"n", "r", "q"} /\ HasEntry(map, piece, GENERAL)
  THEN OnlyMove(moves, {i \in 1..Len(moves) : moves[i].from = map[piece][GENERAL]})
  ELSE <<>>

\* the ["n", "r", "q"] branch of narrowDownMoves and its final return null
narrowByPieceMap(map, moves, piece, direction) ==
  IF piece \in {"n", "r", "q"} /\ HasEntry(map, piece, direction)
  THEN OnlyMove(moves, {i \in 1..Len(moves) : moves[i].from = map[piece][direction]})
  ELSE <<>>

\* the pawn branch with the board taken as never flipped
narrowPawnIgnoreFlip(moves, direction, isFlipped) ==
  LET firstMove == moves[1]
      everyMoveStartsFromSameSquare ==
        \A i \in 1..Len(moves) : moves[i].from = firstMove.from
      queens == {i \in 1..Len(moves) : moves[i].promotionPiece = "q"}
      file(sq) == CharCode(sq[1])
  IN  IF everyMoveStartsFromSameSquare /\ queens # {}
      THEN <<moves[CHOOSE i \in queens : \A j \in queens : i <= j]>>
      ELSE IF direction = GENERAL
      THEN OnlyMove(moves, {i \in 1..Len(moves) : forwardMovesCallback(moves[i])})
      ELSE IF direction = LEFT
      THEN OnlyMove(moves, {i \in 1..Len(moves) :
             file(moves[i].from) < file(moves[i].to)})
      ELSE OnlyMove(moves, {i \in 1..Len(moves) :
             file(moves[i].from) > file(moves[i].to)})

\* the pawn branch of narrowDownMoves: <<m>> when it returns m, <<>> when it
\* falls through to the rest of the function
narrowPawn(moves, direction, isFlipped) ==
  LET firstMove == moves[1]
      everyMoveStartsFromSameSquare ==
        \A i \in 1..Len(moves) : moves[i].from = firstMove.from
      queens == {i \in 1..Len(moves) : moves[i].promotionPiece = "q"}
      file(sq) == CharCode(sq[1])
  IN  IF everyMoveStartsFromSameSquare /\ queens # {}
      THEN <<moves[CHOOSE i \in queens : \A j \in queens : i <= j]>>
      ELSE IF direction = GENERAL
      THEN OnlyMove(moves, {i \in 1..Len(moves) : forwardMovesCallback(moves[i])})
      ELSE IF direction = LEFT
      THEN OnlyMove(moves, {i \in 1..Len(moves) :
             IF isFlipped THEN file(moves[i].from) > file(moves[i].to)
             ELSE file(moves[i].from) < file(moves[i].to)})
      ELSE OnlyMove(moves, {i \in 1..Len(moves) :
             IF isFlipped THEN file(moves[i].from) < file(moves[i].to)
             ELSE file(moves[i].from) > file(moves[i].to)})

narrowDownMoves(map, moves, piece, direction, isFlipped) ==
  LET pawn == IF piece = "p" THEN narrowPawn(moves, direction, isFlipped) ELSE <<>>
  IN  IF pawn # <<>> THEN pawn
      ELSE narrowByPieceMap(map, moves, piece, direction)

\* the keys of bindBoardKeyDown: the piece and the direction each one selects
GameKeys ==
  {<<"q", "p", LEFT>>, <<"w", "p", GENERAL>>, <<"e", "p", RIGHT>>,
   <<"a", "b", GENERAL>>, <<"s", "n", GENERAL>>, <<"d", "n", RIGHT>>,
   <<"z", "r", GENERAL>>, <<"x", "r", RIGHT>>, <<"c", "q", RIGHT>>,
   <<" ", "q", GENERAL>>, <<"Shift", "k", GENERAL>>}

(***************************************************************************)
(* Premove resolver, move execution and the two entry points               *)
(***************************************************************************)
\* an entry of game.premoves.getLegalMoves(); piece "" and from <<>> stand
\* for a field that is not there
Premove(piece, from, to, promotion) ==
  [piece |-> piece, from |-> from, to |-> to, promotion |-> promotion]

\* the filter callback with no test of the promotion
matchingPremoveAnyPromotion(move, m) ==
  LET matchingPiece == m.piece = "" \/ RegExpTest(move.piece, m.piece)
      matchingFrom == m.from = <<>> \/ move.from = <<>>
                        \/ RegExpTestArea(move.from, m.from)
      matchingTo == m.to = move.to
  IN  matchingPiece /\ matchingFrom /\ matchingTo

\* the filter callback of getLegalPremoves
matchingPremove(move, m) ==
  LET matchingPiece == m.piece = "" \/ RegExpTest(move.piece, m.piece)
      matchingFrom == m.from = <<>> \/ move.from = <<>>
                        \/ RegExpTestArea(move.from, m.from)
      matchingTo == m.to = move.to
      matchingPromotion == m.promotion = move.promotionPiece
  IN  matchingPiece /\ matchingFrom /\ matchingTo /\ matchingPromotion

\* the entries of one template pushed to moves: those with a piece
premovesOfTemplate(allLegalMoves, move) ==
  LET matchingMoves == SelectSeq(allLegalMoves, LAMBDA m :
                         matchingPremove(move, m) /\ m.piece # "")
  IN  [i \in 1..Len(matchingMoves) |->
         [piece |-> matchingMoves[i].piece, from |-> matchingMoves[i].from,
          to |-> matchingMoves[i].to,
          promotionPiece |-> matchingMoves[i].promotion]]

RECURSIVE getLegalPremoves(_, _)
getLegalPremoves(allLegalMoves, templates) ==
  IF templates = <<>> THEN <<>>
  ELSE premovesOfTemplate(allLegalMoves, Head(templates))
         \o getLegalPremoves(allLegalMoves, Tail(templates))

\* what an operation leaves behind: the calls of board.makeMove and the
\* message posted
Outcome(calls, text) == [made |-> calls, message |-> text]

\* move execution with the legality test left out
makeMoveUnchecked(board, move) ==
  Outcome(<<[from |-> move.from, to |-> move.to,
             promotionPiece |-> move.promotionPiece]>>, "")

makeMove(board, move) ==
  IF isLegalMove(board, move.from, move.to)
  THEN Outcome(<<[from |-> move.from, to |-> move.to,
                  promotionPiece |-> move.promotionPiece]>>, "")
  ELSE Outcome(<<>>, "illegalMove")

\* go that takes the first of several candidates
goFirstCandidate(board, input) ==
  LET moves == getLegalMoves(board, parseMoveInput(input))
  IN  IF Len(moves) >= 1 THEN makeMove(board, moves[1])
      ELSE Outcome(<<>>, "incorrectMove")

\* go for an input that is no command
go(board, input) ==
  LET moves == getLegalMoves(board, parseMoveInput(input))
  IN  IF Len(moves) = 1 THEN makeMove(board, moves[1])
      ELSE IF Len(moves) > 1 THEN Outcome(<<>>, "ambiguousMove")
      ELSE Outcome(<<>>, "incorrectMove")

\* potentialMovesTemplates of goKbAndMouse
kbTemplates(targetSquare, piece) ==
  <<Template(piece, <<".", ".">>, targetSquare, NoPromotion)>>

\* moves of goKbAndMouse: the on-turn resolver or the premove resolver
kbResolve(board, allLegalMoves, targetSquare, piece) ==
  IF board.isPlayersMove
  THEN getLegalMoves(board, kbTemplates(targetSquare, piece))
  ELSE getLegalPremoves(allLegalMoves, kbTemplates(targetSquare, piece))

\* goKbAndMouse: the moves resolved, the pieces narrowDownMoves was invoked
\* with, the move selected and the outcome
goKbAndMouse(board, allLegalMoves, map, targetSquare, piece, direction, isFlipped) ==
  LET moves == kbResolve(board, allLegalMoves, targetSquare, piece)
      move == IF Len(moves) = 1 THEN <<moves[1]>>
              ELSE narrowDownMoves(map, moves, piece, direction, isFlipped)
  IN  IF Len(moves) = 0
      THEN [moves |-> moves, narrowCall |-> <<>>, move |-> <<>>,
            outcome |-> Outcome(<<>>, "incorrectMove")]
      ELSE [moves |-> moves,
            narrowCall |-> IF Len(moves) = 1 THEN <<>> ELSE <<piece>>,
            move |-> move,
            outcome |-> IF move # <<>> THEN makeMove(board, move[1])
                        ELSE Outcome(<<>>, "ambiguousMove")]

(***************************************************************************)
(* Directional piece map of ComponentChessboard                            *)
(*                                                                         *)
(* The map is a function from the piece keys present to direction maps, a  *)
(* direction map a function from the direction keys present to squares.    *)
(* Keys are only ever inserted by initializePieceMap, GENERAL before       *)
(* RIGHT, so that is the order in which for-in and Object.entries list     *)
(* them.                                                                   *)
(***************************************************************************)
DirectionOrder == <<GENERAL, LEFT, RIGHT>>
EmptyMap == <<>>

\* Object.keys(directionMap), in key order
KeysOf(directionMap) ==
  SelectSeq(DirectionOrder, LAMBDA d : d \in DOMAIN directionMap)

setPieceMap(map, piece, direction, square) ==
  LET directionMap == IF piece \in DOMAIN map THEN map[piece] ELSE EmptyMap
      written == [d \in DOMAIN directionMap \cup {direction} |->
                    IF d = direction THEN square ELSE directionMap[d]]
  IN  [k \in DOMAIN map \cup {piece} |-> IF k = piece THEN written ELSE map[k]]

\* deleteFromPieceMap is only called for an entry that exists
deleteFromPieceMap(map, piece, direction) ==
  [map EXCEPT ![piece] = [d \in DOMAIN @ \ {direction} |-> @[d]]]

\* sortPieces(a, b): negative when a comes first
sortPieces(a, b, side) ==
  LET fileA == CharCode(a.area[1])
      fileB == CharCode(b.area[1])
      rankA == RankIndex(a.area[2])
      rankB == RankIndex(b.area[2])
  IN  IF side = 1
      THEN IF fileA # fileB THEN fileA - fileB ELSE rankB - rankA
      ELSE IF fileA # fileB THEN fileB - fileA ELSE rankA - rankB

\* Array.prototype.sort(sortPieces), which is stable
RECURSIVE sortedPieces(_, _)
sortedPieces(ps, side) ==
  IF ps = <<>> THEN <<>>
  ELSE LET x == ps[Len(ps)]
           t == sortedPieces(SubSeq(ps, 1, Len(ps) - 1), side)
       IN  SelectSeq(t, LAMBDA e : sortPieces(e, x, side) <= 0) \o <<x>>
             \o SelectSeq(t, LAMBDA e : sortPieces(e, x, side) > 0)

\* processPieces with the last piece registered first and the first one last
processPiecesSwapped(map, ps) ==
  IF Len(ps) = 0 THEN map
  ELSE LET generalPiece == ps[Len(ps)]
           rightPiece == ps[1]
           withGeneral == setPieceMap(map, generalPiece.type, GENERAL, generalPiece.area)
       IN  IF Len(ps) = 1 THEN withGeneral
           ELSE setPieceMap(withGeneral, rightPiece.type, RIGHT, rightPiece.area)

\* processPieces of initializePieceMap, on the sorted pieces of one kind
processPieces(map, ps) ==
  IF Len(ps) = 0 THEN map
  ELSE LET generalPiece == ps[1]
           rightPiece == ps[Len(ps)]
           withGeneral == setPieceMap(map, generalPiece.type, GENERAL, generalPiece.area)
       IN  IF Len(ps) = 1 THEN withGeneral
           ELSE setPieceMap(withGeneral, rightPiece.type, RIGHT, rightPiece.area)

\* the constructor's initializePieceMap: pieceMap is null before
initializePieceMap(allPieces, side) ==
  LET playerPieces == SelectSeq(allPieces, LAMBDA p : p.color = side)
      rooks == sortedPieces(SelectSeq(playerPieces, LAMBDA p : p.type = "r"), side)
      knights == sortedPieces(SelectSeq(playerPieces, LAMBDA p : p.type = "n"), side)
      queens == sortedPieces(SelectSeq(playerPieces, LAMBDA p : p.type = "q"), side)
  IN  processPieces(processPieces(processPieces(EmptyMap, rooks), knights), queens)

\* the notations onMove takes for castling
CastlingSans == {"O-O", "O-O-O"}

\* the castling branch of onMove (own side, san is "O-O" or "O-O-O")
onCastling(map, move) ==
  IF "r" \notin DOMAIN map THEN map   \* Object.keys(undefined) throws: no write
  ELSE
  LET rooksDirectionMap == map["r"]
      isKingSide == move.san = "O-O"
      kingCoords == squareToCoords(move.to)
      rookFileNum == IF isKingSide THEN kingCoords[1] - 1 ELSE kingCoords[1] + 1
      rookSquare == <<FileNames[rookFileNum], RankNames[kingCoords[2]]>>
      onSide(square) ==
        LET rookCoords == squareToCoords(square)
        IN  /\ kingCoords[2] = rookCoords[2]
            /\ IF isKingSide THEN rookCoords[1] > kingCoords[1]
               ELSE rookCoords[1] < kingCoords[1]
  IN  IF Len(KeysOf(rooksDirectionMap)) = 1
      THEN setPieceMap(map, "r", KeysOf(rooksDirectionMap)[1], rookSquare)
      ELSE [map EXCEPT !["r"] =
              [d \in DOMAIN @ |-> IF onSide(@[d]) THEN rookSquare ELSE @[d]]]

\* the own-move branch that rewrites the entry the move arrives on
onOwnMoveByDestination(map, move) ==
  IF move.piece \in DOMAIN map
  THEN [map EXCEPT ![move.piece] =
          [d \in DOMAIN @ |-> IF @[d] = move.to THEN move.from ELSE @[d]]]
  ELSE map

\* the else-if branch of onMove for an own move: every entry of the moved
\* kind that holds the origin is set to the destination
onOwnMove(map, move) ==
  IF move.piece \in DOMAIN map
  THEN [map EXCEPT ![move.piece] =
          [d \in DOMAIN @ |-> IF @[d] = move.from THEN move.to ELSE @[d]]]
  ELSE map

\* the capture branch that drops every entry of the captured kind
onOpponentMoveDropKind(map, move) ==
  IF move.capturedStr # "" /\ toLowerCase(move.capturedStr) \in DOMAIN map
  THEN [map EXCEPT ![toLowerCase(move.capturedStr)] = EmptyMap]
  ELSE map

\* the else branch of onMove: a move of the other side
onOpponentMove(map, move) ==
  IF move.capturedStr # ""
  THEN LET capturedPiece == toLowerCase(move.capturedStr)
       IN  IF capturedPiece \in DOMAIN map
           THEN LET hits == SelectSeq(KeysOf(map[capturedPiece]),
                                      LAMBDA d : map[capturedPiece][d] = move.to)
                IN  IF hits # <<>>
                    THEN deleteFromPieceMap(map, capturedPiece, hits[1])
                    ELSE map
           ELSE map
  ELSE map

onMove(map, side, move) ==
  IF move.color = side
  THEN IF move.san \in CastlingSans THEN onCastling(map, move)
       ELSE onOwnMove(map, move)
  ELSE onOpponentMove(map, move)

(***************************************************************************)
(* Positions, oracles and texts the operations are run on                  *)
(***************************************************************************)
Piece(color, type, f, r) == [color |-> color, type |-> type, area |-> Sq(f, r)]

BackRank == <<"r", "n", "b", "q", "k", "b", "n", "r">>

\* the standard starting layout
StartLayout ==
  [i \in 1..8 |-> Piece(1, BackRank[i], i, 1)]
    \o [i \in 1..8 |-> Piece(1, "p", i, 2)]
    \o [i \in 1..8 |-> Piece(2, "p", i, 7)]
    \o [i \in 1..8 |-> Piece(2, BackRank[i], i, 8)]

\* knights on b1 and g1
KnightsLayout ==
  <<Piece(1, "n", 2, 1), Piece(1, "k", 5, 1), Piece(1, "n", 7, 1),
    Piece(2, "k", 5, 8)>>

\* a pawn on b2 and two bishops that can all take on c3
ConflictLayout ==
  <<Piece(1, "b", 5, 1), Piece(1, "k", 7, 1), Piece(1, "p", 2, 2),
    Piece(1, "b", 1, 5), Piece(2, "n", 3, 3), Piece(2, "k", 5, 8)>>

\* a pawn on e7 that can promote on e8 or on d8
PromotionLayout ==
  <<Piece(1, "k", 5, 1), Piece(1, "p", 5, 7), Piece(1, "r", 5, 2),
    Piece(2, "r", 4, 8), Piece(2, "k", 7, 8)>>

Layouts == {StartLayout, KnightsLayout, ConflictLayout, PromotionLayout}

\* pawn double-steps from the second rank, and nothing else
DoubleSteps == {<<Sq(f, 2), Sq(f, 4)>> : f \in 1..8}

\* the moves an oracle may allow besides
LegalPool ==
  {<<Sq(2, 1), Sq(6, 3)>>, <<Sq(7, 1), Sq(6, 3)>>, <<Sq(2, 2), Sq(3, 3)>>,
   <<Sq(5, 1), Sq(3, 3)>>, <<Sq(1, 5), Sq(3, 3)>>, <<Sq(5, 7), Sq(5, 8)>>,
   <<Sq(5, 7), Sq(4, 8)>>, <<Sq(5, 2), Sq(5, 4)>>, <<Sq(5, 2), Sq(5, 8)>>}

\* greatest number of pool moves one oracle allows
MaxLegal == 3

Oracles ==
  {DoubleSteps} \cup {S \in SUBSET LegalPool : Cardinality(S) <= MaxLegal}

Texts ==
  {<<"e", "2", "e", "4">>, <<"N", "f", "3">>, <<"b", "x", "c", "3">>,
   <<"e", "8">>, <<"e", "8", "=", "Q">>, <<"e", "x", "d", "8", "=", "N">>,
   <<"e", "7", "e", "8", "q">>, <<"e", "7", "e", "8">>, <<"R", "e", "8">>,
   <<"g", "1", "-", "f", "3">>, <<"B", "c", "3">>, <<"O", "-", "O">>,
   <<"N", "f">>, <<"z">>, <<"N", "\t", "f", "3">>, <<"\t", "e", "2", "e", "4">>,
   <<"N", " ", "f", "3">>, <<"e", "4", "U+2003">>}

NoMove == [piece |-> "", from |-> <<>>, to |-> <<>>, promotionPiece |-> NoPromotion]
NoEvent == [color |-> 0, piece |-> "", from |-> <<>>, to |-> <<>>,
            san |-> "", capturedStr |-> ""]

\* no keyboard gesture has read the map yet
NoRead == [map |-> <<>>, at |-> -1]

\* the board the resolver reads in the current state
board == Board(pieces, legalMoves, playersMove)

(***************************************************************************)
(* The board adapter instance: construction, then the game's move events   *)
(***************************************************************************)
\* a position with both sides able to castle either way, white with a
\* third rook
CastleLayout ==
  <<Piece(1, "r", 1, 1), Piece(1, "k", 5, 1), Piece(1, "r", 8, 1),
    Piece(1, "q", 1, 4), Piece(1, "r", 8, 4),
    Piece(2, "n", 1, 5), Piece(2, "p", 8, 5),
    Piece(2, "r", 1, 8), Piece(2, "k", 5, 8), Piece(2, "r", 8, 8)>>

MapLayouts == {StartLayout, CastleLayout}

\* the squares the game's ordinary moves start and end on
MoveSquares ==
  {Sq(1, 1), Sq(8, 1), Sq(1, 4), Sq(8, 4), Sq(1, 5), Sq(8, 5), Sq(1, 8), Sq(8, 8)}

\* number of move events of one game
MaxMoves == 3

toUpperCase(c) ==
  CASE c = "q" -> "Q" [] c = "r" -> "R" [] c = "n" -> "N" [] c = "b" -> "B"
    [] c = "p" -> "P" [] OTHER -> c

Event(color, piece, from, to, san, capturedStr) ==
  [color |-> color, piece |-> piece, from |-> from, to |-> to, san |-> san,
   capturedStr |-> capturedStr]

Init ==
  /\ pieces \in MapLayouts
  /\ playingAs \in {1, 2}
  /\ turn \in {1, 2}
  /\ pieceMap = initializePieceMap(pieces, playingAs)
  /\ prevPieceMap = EmptyMap
  /\ lastMove = NoEvent
  /\ nMoves = 0
  /\ legalMoves = {} /\ playersMove = TRUE /\ inputText = <<>>
  /\ potentialMoves = <<>> /\ rawMoves = <<>> /\ legalResult = <<>>
  /\ rtMove = NoMove /\ rtResult = <<>>
  /\ kbMoves = <<>> /\ kbPiece = "" /\ kbDirection = "" /\ flipped = FALSE
  /\ narrowed = <<>> /\ phase = "game"
  /\ premoves = <<>> /\ kbTarget = <<>> /\ message = "" /\ made = <<>>
  /\ narrowCall = <<>> /\ drawSeen = <<>> /\ kbSeen = NoRead
  /\ mode = "playing"

\* onMove throws (Object.keys of undefined) on a castling of the playing
\* side when the map has no rook key: the handler ends before the draw event
onMoveThrows(map, side, move) ==
  move.color = side /\ move.san \in CastlingSans /\ "r" \notin DOMAIN map

\* the handler with the draw event dispatched before onMove
HandleMoveDrawFirst(move) ==
  /\ prevPieceMap' = pieceMap
  /\ pieceMap' = onMove(pieceMap, playingAs, move)
  /\ drawSeen' = pieceMap
  /\ lastMove' = move
  /\ nMoves' = nMoves + 1
  /\ turn' = 3 - turn
  /\ UNCHANGED <<playingAs, legalMoves, playersMove, inputText, potentialMoves,
                 rawMoves, legalResult, rtMove, rtResult, kbMoves, kbPiece,
                 kbDirection, flipped, narrowed, phase, ioVars, kbSeen>>

\* the handler of game.on("Move"): onMove(move), then the draw event
HandleMove(move) ==
  /\ prevPieceMap' = pieceMap
  /\ pieceMap' = onMove(pieceMap, playingAs, move)
  /\ drawSeen' = IF onMoveThrows(pieceMap, playingAs, move) THEN drawSeen
                 ELSE pieceMap'
  /\ lastMove' = move
  /\ nMoves' = nMoves + 1
  /\ turn' = 3 - turn
  /\ UNCHANGED <<playingAs, legalMoves, playersMove, inputText, potentialMoves,
                 rawMoves, legalResult, rtMove, rtResult, kbMoves, kbPiece,
                 kbDirection, flipped, narrowed, phase, ioVars, kbSeen>>

\* the side to move moves a piece, taking what stands on the destination
MoveEvent ==
  /\ phase = "game"
  /\ nMoves < MaxMoves
  /\ \E i \in 1..Len(pieces), to \in MoveSquares :
       LET mover == pieces[i]
           there == {j \in 1..Len(pieces) : pieces[j].area = to}
       IN  /\ mover.color = turn
           /\ mover.type # "k"
           /\ mover.area \in MoveSquares
           /\ \A j \in there : pieces[j].color # turn /\ pieces[j].type # "k"
           /\ \E capturedStr \in
                  IF there = {} THEN {""}
                  ELSE UNION {{pieces[j].type, toUpperCase(pieces[j].type)} : j \in there} :
                HandleMove(Event(turn, mover.type, mover.area, to, "move", capturedStr))
           /\ pieces' = SelectSeq([j \in 1..Len(pieces) |->
                                     IF j = i THEN [mover EXCEPT !.area = to]
                                     ELSE pieces[j]],
                                  LAMBDA p : p.area # to \/ p.color = turn)

\* the side to move castles; the notation may carry a check or mate mark
CastlingEvent ==
  /\ phase = "game"
  /\ nMoves < MaxMoves
  /\ \E kingSide \in BOOLEAN, suffix \in {"", "+", "#"} :
       LET rank == IF turn = 1 THEN 1 ELSE 8
           rookFrom == Sq(IF kingSide THEN 8 ELSE 1, rank)
           rookTo == Sq(IF kingSide THEN 6 ELSE 4, rank)
           kingTo == Sq(IF kingSide THEN 7 ELSE 3, rank)
           between == IF kingSide THEN {6, 7} ELSE {2, 3, 4}
           san == IF kingSide
                  THEN (CASE suffix = "" -> "O-O" [] suffix = "+" -> "O-O+"
                          [] OTHER -> "O-O#")
                  ELSE (CASE suffix = "" -> "O-O-O" [] suffix = "+" -> "O-O-O+"
                          [] OTHER -> "O-O-O#")
       IN  /\ \E j \in 1..Len(pieces) :
                pieces[j] = [color |-> turn, type |-> "k", area |-> Sq(5, rank)]
           /\ \E j \in 1..Len(pieces) :
                pieces[j] = [color |-> turn, type |-> "r", area |-> rookFrom]
           /\ \A j \in 1..Len(pieces) : \A f \in between : pieces[j].area # Sq(f, rank)
           /\ HandleMove(Event(turn, "k", Sq(5, rank), kingTo, san, ""))
           /\ pieces' = [j \in 1..Len(pieces) |->
                           IF pieces[j].area = Sq(5, rank)
                           THEN [pieces[j] EXCEPT !.area = kingTo]
                           ELSE IF pieces[j].area = rookFrom
                           THEN [pieces[j] EXCEPT !.area = rookTo]
                           ELSE pieces[j]]

Next == MoveEvent \/ CastlingEvent

Spec == Init /\ [][Next]_vars

(***************************************************************************)
(* Resolution of a text: parse, resolve, parse the result again            *)
(***************************************************************************)
InitResolve ==
  /\ pieces \in Layouts
  /\ legalMoves \in Oracles
  /\ playersMove \in BOOLEAN
  /\ inputText \in Texts
  /\ potentialMoves = <<>>
  /\ rawMoves = <<>>
  /\ legalResult = <<>>
  /\ rtMove = NoMove
  /\ rtResult = <<>>
  /\ phase = "input"
  /\ playingAs = 1 /\ turn = 1 /\ nMoves = 0
  /\ pieceMap = <<>> /\ prevPieceMap = <<>> /\ lastMove = NoEvent
  /\ kbMoves = <<>> /\ kbPiece = "" /\ kbDirection = "" /\ flipped = FALSE
  /\ narrowed = <<>>
  /\ premoves = <<>> /\ kbTarget = <<>> /\ message = "" /\ made = <<>>
  /\ narrowCall = <<>> /\ drawSeen = <<>> /\ kbSeen = NoRead
  /\ mode = "playing"

\* go, up to the outcome: parseMoveInput, then getLegalMoves
Resolve ==
  /\ phase = "input"
  /\ potentialMoves' = parseMoveInput(inputText)
  /\ rawMoves' = rawLegalMoves(board, potentialMoves')
  /\ legalResult' = getLegalMoves(board, potentialMoves')
  /\ phase' = "resolved"
  /\ UNCHANGED <<pieces, playingAs, turn, pieceMap, prevPieceMap, lastMove,
                 nMoves, legalMoves, playersMove, inputText, rtMove, rtResult,
                 kbMoves, kbPiece, kbDirection, flipped, narrowed, ioVars,
                 evVars>>

\* one resolved move written as from + to + promotion and resolved again
Reparse ==
  /\ phase = "resolved"
  /\ \E i \in 1..Len(legalResult) :
       /\ rtMove' = legalResult[i]
       /\ rtResult' = getLegalMoves(board, parseMoveInput(UCIText(legalResult[i])))
  /\ phase' = "reparsed"
  /\ UNCHANGED <<pieces, playingAs, turn, pieceMap, prevPieceMap, lastMove,
                 nMoves, legalMoves, playersMove, inputText, potentialMoves,
                 rawMoves, legalResult, kbMoves, kbPiece, kbDirection, flipped,
                 narrowed, ioVars, evVars>>

NextResolve == Resolve \/ Reparse

SpecResolve == InitResolve /\ [][NextResolve]_vars

(***************************************************************************)
(* Disambiguation of several candidates by a key                           *)
(***************************************************************************)
Move(piece, from, to, promo) ==
  [piece |-> piece, from |-> from, to |-> to, promotionPiece |-> promo]

\* greatest number of candidates handed to narrowDownMoves
MaxCandidates == 3

\* candidates of one kind for one target square: pawn moves to e4, pawn
\* promotions on e8 (as the premove enumeration lists them), piece moves to e4
CandidatePool(piece) ==
  IF piece = "p"
  THEN {{Move("p", Sq(4, 3), Sq(5, 4), NoPromotion),
         Move("p", Sq(5, 3), Sq(5, 4), NoPromotion),
         Move("p", Sq(6, 3), Sq(5, 4), NoPromotion)},
        {Move("p", Sq(5, 7), Sq(5, 8), "q"), Move("p", Sq(5, 7), Sq(5, 8), "r"),
         Move("p", Sq(4, 7), Sq(5, 8), "q"), Move("p", Sq(5, 7), Sq(5, 8), "n")}}
  ELSE {{Move(piece, Sq(1, 4), Sq(5, 4), NoPromotion),
         Move(piece, Sq(8, 1), Sq(5, 4), NoPromotion),
         Move(piece, Sq(8, 4), Sq(5, 4), NoPromotion),
         Move(piece, Sq(5, 1), Sq(5, 4), NoPromotion)}}

\* the lists of 2..MaxCandidates distinct candidates out of a pool
CandidateLists(pool) ==
  UNION {{c \in [1..n -> pool] : \A i, j \in 1..n : i # j => c[i] # c[j]} :
           n \in 2..MaxCandidates}

\* squares a map entry of the disambiguated kind may hold
EntrySquares == {Sq(1, 4), Sq(8, 1), Sq(1, 1)}

\* piece maps with entries for one kind: any of GENERAL and RIGHT, or no key
KbPieceMaps(piece) ==
  {<<>>} \cup
  UNION {{piece :> dm : dm \in [D -> EntrySquares]} : D \in SUBSET {GENERAL, RIGHT}}

InitNarrow ==
  /\ \E key \in GameKeys :
       /\ kbPiece = key[2]
       /\ kbDirection = key[3]
       /\ \E pool \in CandidatePool(key[2]) : kbMoves \in CandidateLists(pool)
       /\ pieceMap \in KbPieceMaps(IF key[2] = "p" THEN "r" ELSE key[2])
  /\ flipped \in BOOLEAN
  /\ narrowed = <<>>
  /\ phase = "candidates"
  /\ pieces = <<>> /\ playingAs = 1 /\ turn = 1 /\ nMoves = 0
  /\ prevPieceMap = <<>> /\ lastMove = NoEvent
  /\ legalMoves = {} /\ playersMove = TRUE /\ inputText = <<>>
  /\ potentialMoves = <<>> /\ rawMoves = <<>> /\ legalResult = <<>>
  /\ rtMove = NoMove /\ rtResult = <<>>
  /\ premoves = <<>> /\ kbTarget = <<>> /\ message = "" /\ made = <<>>
  /\ narrowCall = <<>> /\ drawSeen = <<>> /\ kbSeen = NoRead
  /\ mode = "playing"

\* the else branch of goKbAndMouse for moves.length > 1
Narrow ==
  /\ phase = "candidates"
  /\ narrowed' = narrowDownMoves(pieceMap, kbMoves, kbPiece, kbDirection, flipped)
  /\ phase' = "narrowed"
  /\ UNCHANGED <<pieces, playingAs, turn, pieceMap, prevPieceMap, lastMove,
                 nMoves, legalMoves, playersMove, inputText, potentialMoves,
                 rawMoves, legalResult, rtMove, rtResult, kbMoves, kbPiece,
                 kbDirection, flipped, ioVars, evVars>>

NextNarrow == Narrow

SpecNarrow == InitNarrow /\ [][NextNarrow]_vars

(***************************************************************************)
(* One input on one board: a text given to go, or a key pressed on the     *)
(* board with the mouse over a square                                      *)
(***************************************************************************)
\* two pawns, two bishops, two knights and two rooks that may all go to c3
KeyboardLayout ==
  <<Piece(1, "n", 2, 1), Piece(1, "r", 3, 1), Piece(1, "b", 5, 1),
    Piece(1, "k", 7, 1), Piece(1, "p", 2, 2), Piece(1, "p", 4, 2),
    Piece(1, "r", 8, 3), Piece(1, "n", 5, 4), Piece(1, "b", 1, 5),
    Piece(2, "n", 3, 3), Piece(2, "k", 5, 8)>>

\* the moves to c3 an oracle may allow
InputPool ==
  {<<Sq(2, 2), Sq(3, 3)>>, <<Sq(4, 2), Sq(3, 3)>>, <<Sq(5, 1), Sq(3, 3)>>,
   <<Sq(1, 5), Sq(3, 3)>>, <<Sq(2, 1), Sq(3, 3)>>, <<Sq(5, 4), Sq(3, 3)>>,
   <<Sq(3, 1), Sq(3, 3)>>, <<Sq(8, 3), Sq(3, 3)>>}

InputOracles == {S \in SUBSET InputPool : Cardinality(S) <= MaxLegal}

\* the entries a premove enumeration may list, in its order
PremovePool ==
  <<Premove("p", Sq(2, 2), Sq(3, 3), NoPromotion),
    Premove("p", Sq(4, 2), Sq(3, 3), NoPromotion),
    Premove("b", Sq(5, 1), Sq(3, 3), NoPromotion),
    Premove("n", Sq(2, 1), Sq(3, 3), NoPromotion),
    Premove("n", Sq(5, 4), Sq(3, 3), NoPromotion),
    Premove("", Sq(3, 1), Sq(3, 3), NoPromotion),
    Premove("p", Sq(2, 7), Sq(2, 8), "q")>>

\* greatest number of entries of one premove enumeration
MaxPremoves == 2

\* the entries of PremovePool at the indices of a set, in the pool's order
RECURSIVE PoolEntries(_, _)
PoolEntries(idx, k) ==
  IF k > Len(PremovePool) THEN <<>>
  ELSE (IF k \in idx THEN <<PremovePool[k]>> ELSE <<>>) \o PoolEntries(idx, k + 1)

PremoveLists ==
  {PoolEntries(idx, 1) :
     idx \in {S \in SUBSET (1..Len(PremovePool)) : Cardinality(S) <= MaxPremoves}}

\* texts typed on the keyboard layout
GoTexts ==
  {<<"b", "x", "c", "3">>, <<"N", "c", "3">>, <<"b", "2", "c", "3">>,
   <<"R", "c", "3">>, <<"c", "1", "-", "c", "3">>, <<"z", "z">>,
   <<"N", " ", "c", "3">>}

\* the squares the mouse is over when a key is pressed
TargetSquares == {Sq(3, 3), Sq(2, 8)}

InitInput ==
  /\ pieces = KeyboardLayout
  /\ playingAs = 1 /\ turn = 1 /\ nMoves = 0
  /\ pieceMap = initializePieceMap(pieces, playingAs)
  /\ legalMoves \in InputOracles
  /\ playersMove \in BOOLEAN
  /\ premoves \in (IF playersMove THEN {<<>>} ELSE PremoveLists)
  /\ flipped \in BOOLEAN
  /\ phase = "ready"
  /\ prevPieceMap = <<>> /\ lastMove = NoEvent
  /\ inputText = <<>> /\ potentialMoves = <<>> /\ rawMoves = <<>>
  /\ legalResult = <<>> /\ rtMove = NoMove /\ rtResult = <<>>
  /\ kbMoves = <<>> /\ kbPiece = "" /\ kbDirection = "" /\ narrowed = <<>>
  /\ kbTarget = <<>> /\ message = "" /\ made = <<>> /\ narrowCall = <<>>
  /\ drawSeen = <<>> /\ kbSeen = NoRead
  /\ mode = "playing"

\* the Enter key of the input: go(board, input)
Go ==
  /\ phase = "ready"
  /\ \E input \in GoTexts :
       /\ inputText' = input
       /\ potentialMoves' = parseMoveInput(input)
       /\ rawMoves' = rawLegalMoves(board, parseMoveInput(input))
       /\ legalResult' = getLegalMoves(board, parseMoveInput(input))
       /\ made' = go(board, input).made
       /\ message' = go(board, input).message
  /\ phase' = "went"
  /\ UNCHANGED <<pieces, playingAs, turn, pieceMap, prevPieceMap, lastMove,
                 nMoves, legalMoves, playersMove, rtMove, rtResult, kbMoves,
                 kbPiece, kbDirection, flipped, narrowed, premoves, kbTarget,
                 narrowCall, evVars, mode>>

\* the keydown listener of bindBoardKeyDown for a game key, the mouse being
\* over a square: goKbAndMouse(board, targetSquare, piece, direction)
KeyDown ==
  /\ phase = "ready"
  /\ \E key \in GameKeys, targetSquare \in TargetSquares :
       LET r == goKbAndMouse(board, premoves, pieceMap, targetSquare, key[2],
                             key[3], flipped)
       IN  /\ kbTarget' = targetSquare
           /\ kbPiece' = key[2]
           /\ kbDirection' = key[3]
           /\ kbMoves' = r.moves
           /\ narrowCall' = r.narrowCall
           /\ narrowed' = r.move
           /\ made' = r.outcome.made
           /\ message' = r.outcome.message
           /\ kbSeen' = IF r.narrowCall = <<>> THEN kbSeen
                        ELSE [map |-> pieceMap, at |-> nMoves]
  /\ phase' = "pressed"
  /\ UNCHANGED <<pieces, playingAs, turn, pieceMap, prevPieceMap, lastMove,
                 nMoves, legalMoves, playersMove, inputText, potentialMoves,
                 rawMoves, legalResult, rtMove, rtResult, flipped, premoves,
                 drawSeen, mode>>

NextInput == Go \/ KeyDown

SpecInput == InitInput /\ [][NextInput]_vars

(***************************************************************************)
(* The premove resolver on templates and a premove enumeration             *)
(***************************************************************************)
\* templates of typed texts and of keys
PremoveTemplates ==
  {parseMoveInput(t) : t \in GoTexts}
    \cup {kbTemplates(sq, key[2]) : sq \in TargetSquares, key \in GameKeys}

InitPremove ==
  /\ pieces \in {KeyboardLayout, KnightsLayout}
  /\ premoves \in PremoveLists
  /\ potentialMoves \in PremoveTemplates
  /\ playersMove = FALSE
  /\ phase = "templates"
  /\ playingAs = 1 /\ turn = 2 /\ nMoves = 0
  /\ pieceMap = <<>> /\ prevPieceMap = <<>> /\ lastMove = NoEvent
  /\ legalMoves = {} /\ flipped = FALSE
  /\ inputText = <<>> /\ rawMoves = <<>>
  /\ legalResult = <<>> /\ rtMove = NoMove /\ rtResult = <<>>
  /\ kbMoves = <<>> /\ kbPiece = "" /\ kbDirection = "" /\ narrowed = <<>>
  /\ kbTarget = <<>> /\ message = "" /\ made = <<>> /\ narrowCall = <<>>
  /\ drawSeen = <<>> /\ kbSeen = NoRead
  /\ mode = "playing"

\* getLegalPremoves(board, potentialMoves)
ResolvePremoves ==
  /\ phase = "templates"
  /\ legalResult' = getLegalPremoves(premoves, potentialMoves)
  /\ phase' = "premoves"
  /\ UNCHANGED <<pieces, playingAs, turn, pieceMap, prevPieceMap, lastMove,
                 nMoves, legalMoves, playersMove, inputText, potentialMoves,
                 rawMoves, rtMove, rtResult, kbMoves, kbPiece, kbDirection,
                 flipped, narrowed, ioVars, evVars>>

NextPremove == ResolvePremoves

SpecPremove == InitPremove /\ [][NextPremove]_vars

(***************************************************************************)
(* The parser on the UCI texts of all pairs of squares                     *)
(***************************************************************************)
Squares == {<<f, r>> : f \in FileChars, r \in RankChars}

\* from + to, alone or followed by a promotion letter
UciTexts ==
  {s \o t \o x : s \in Squares, t \in Squares,
                 x \in {<<>>} \cup {<<c>> : c \in PromotionLetters}}

InitParse ==
  /\ inputText \in UciTexts
  /\ potentialMoves = <<>>
  /\ phase = "text"
  /\ pieces = <<>> /\ playingAs = 1 /\ turn = 1 /\ nMoves = 0
  /\ pieceMap = <<>> /\ prevPieceMap = <<>> /\ lastMove = NoEvent
  /\ legalMoves = {} /\ playersMove = TRUE /\ flipped = FALSE
  /\ rawMoves = <<>> /\ legalResult = <<>> /\ rtMove = NoMove /\ rtResult = <<>>
  /\ kbMoves = <<>> /\ kbPiece = "" /\ kbDirection = "" /\ narrowed = <<>>
  /\ premoves = <<>> /\ kbTarget = <<>> /\ message = "" /\ made = <<>>
  /\ narrowCall = <<>> /\ drawSeen = <<>> /\ kbSeen = NoRead
  /\ mode = "playing"

\* parseMoveInput(input)
Parse ==
  /\ phase = "text"
  /\ potentialMoves' = parseMoveInput(inputText)
  /\ phase' = "parsed"
  /\ UNCHANGED <<pieces, playingAs, turn, pieceMap, prevPieceMap, lastMove,
                 nMoves, legalMoves, playersMove, inputText, rawMoves,
                 legalResult, rtMove, rtResult, kbMoves, kbPiece, kbDirection,
                 flipped, narrowed, ioVars, evVars>>

NextParse == Parse

SpecParse == InitParse /\ [][NextParse]_vars

(***************************************************************************)
(* One board element over several games: getBoard keeps the adapter        *)
(***************************************************************************)
\* a new game starts on the element after some move: getBoard finds the
\* adapter in boards and returns it, no constructor runs
NewGame ==
  /\ lastMove # NoEvent
  /\ pieces' \in MapLayouts
  /\ playingAs' \in {1, 2}
  /\ turn' = 1
  /\ lastMove' = NoEvent
  /\ UNCHANGED <<pieceMap, prevPieceMap, nMoves, legalMoves, playersMove,
                 inputText, potentialMoves, rawMoves, legalResult, rtMove,
                 rtResult, kbMoves, kbPiece, kbDirection, flipped, narrowed,
                 phase, ioVars, evVars>>

NextSession == MoveEvent \/ CastlingEvent \/ NewGame

SpecSession == Init /\ [][NextSession]_vars

(***************************************************************************)
(* Move events and keyboard gestures on one adapter                        *)
(***************************************************************************)
\* the square the mouse is over during the game
GameTarget == Sq(8, 5)

\* an oracle that lets every piece of the side to move go to the target
GameLegalMoves ==
  {<<pieces[i].area, GameTarget>> :
     i \in {j \in 1..Len(pieces) :
              pieces[j].color = turn /\ pieces[j].area # GameTarget}}

\* the premove enumeration: every piece of the playing side to the target
GamePremoves ==
  LET own == SelectSeq(pieces, LAMBDA p :
               p.color = playingAs /\ p.area # GameTarget)
  IN  [i \in 1..Len(own) |->
         Premove(own[i].type, own[i].area, GameTarget, NoPromotion)]

GameModes == {"playing", "analysis"}

\* the adapter constructed on the castling position for the first player,
\* in a game played or analysed
InitEvents ==
  /\ pieces = CastleLayout
  /\ playingAs = 1
  /\ turn \in {1, 2}
  /\ mode \in GameModes
  /\ pieceMap = initializePieceMap(pieces, playingAs)
  /\ prevPieceMap = EmptyMap
  /\ lastMove = NoEvent
  /\ nMoves = 0
  /\ legalMoves = {} /\ playersMove = TRUE /\ inputText = <<>>
  /\ potentialMoves = <<>> /\ rawMoves = <<>> /\ legalResult = <<>>
  /\ rtMove = NoMove /\ rtResult = <<>>
  /\ kbMoves = <<>> /\ kbPiece = "" /\ kbDirection = "" /\ flipped = FALSE
  /\ narrowed = <<>> /\ phase = "game"
  /\ premoves = <<>> /\ kbTarget = <<>> /\ message = "" /\ made = <<>>
  /\ narrowCall = <<>> /\ drawSeen = <<>> /\ kbSeen = NoRead

\* a game key pressed between two move events; the game is followed up to
\* the first key
KeyDownInGame ==
  /\ phase = "game"
  /\ nMoves < MaxMoves
  /\ phase' = "pressed"
  /\ \E key \in GameKeys :
       LET r == goKbAndMouse(Board(pieces, GameLegalMoves,
                                   isPlayersMove(mode, TRUE, turn, playingAs)),
                             GamePremoves, pieceMap, GameTarget, key[2],
                             key[3], flipped)
       IN  /\ kbTarget' = GameTarget
           /\ kbPiece' = key[2]
           /\ kbDirection' = key[3]
           /\ kbMoves' = r.moves
           /\ narrowCall' = r.narrowCall
           /\ narrowed' = r.move
           /\ made' = r.outcome.made
           /\ message' = r.outcome.message
           /\ kbSeen' = IF r.narrowCall = <<>> THEN kbSeen
                        ELSE [map |-> pieceMap, at |-> nMoves]
  /\ UNCHANGED <<pieces, playingAs, turn, pieceMap, prevPieceMap, lastMove,
                 nMoves, legalMoves, playersMove, inputText, potentialMoves,
                 rawMoves, legalResult, rtMove, rtResult, flipped, premoves,
                 drawSeen, mode>>

NextEvents == MoveEvent \/ CastlingEvent \/ KeyDownInGame

SpecEvents == InitEvents /\ [][NextEvents]_vars

(***************************************************************************)
(* Claims about the resolver                                               *)
(***************************************************************************)
Resolved == phase \in {"resolved", "reparsed"}

KindAt(area) ==
  {pieces[i].type : i \in {j \in 1..Len(pieces) : pieces[j].area = area}}

\* C2: every move the resolver returns carries the kind of the piece on its
\* origin square, never the wildcard; "e2e4" on the starting layout with the
\* double-step oracle resolves to exactly {pawn, e2, e4}.
C2_ConcretePieceKind ==
  /\ Resolved =>
       \A i \in 1..Len(legalResult) :
         /\ legalResult[i].piece # "."
         /\ KindAt(legalResult[i].from) = {legalResult[i].piece}
  /\ (/\ Resolved /\ playersMove
      /\ inputText = <<"e", "2", "e", "4">>
      /\ pieces = StartLayout /\ legalMoves = DoubleSteps)
       => legalResult = <<Template("p", Sq(5, 2), Sq(5, 4), NoPromotion)>>

\* the moves of rawMoves and of a template, without the piece field
Proj(m) == <<m.from, m.to, m.promotionPiece>>

\* the origins the claim C6 lists for template t: occupied squares whose
\* occupant matches the piece pattern and both axes of the from-pattern and
\* whose move to t.to the oracle allows
ListedOrigins(t) ==
  {a \in {pieces[i].area : i \in 1..Len(pieces)} :
     /\ \E i \in 1..Len(pieces) :
          /\ pieces[i].area = a
          /\ (t.piece = "." \/ t.piece = pieces[i].type)
     /\ (t.from[1] = "." \/ t.from[1] = a[1])
     /\ (t.from[2] = "." \/ t.from[2] = a[2])
     /\ <<a, t.to>> \in legalMoves}

\* the listed origins that are no pawn sent to rank 1 or 8 without a promotion
ActionableOrigins(t) ==
  {a \in ListedOrigins(t) :
     ~(/\ "p" \in KindAt(a)
       /\ t.to[2] \in {"1", "8"}
       /\ t.promotionPiece = NoPromotion)}

\* rawMoves holds, for each template and each origin of orig(template), one move
RawIsExactly(orig(_)) ==
  LET wanted == {<<i, a>> \in (1..Len(potentialMoves)) \X
                                {pieces[j].area : j \in 1..Len(pieces)} :
                   a \in orig(potentialMoves[i])}
      want(v) == {w \in wanted :
                    Proj([potentialMoves[w[1]] EXCEPT !.from = w[2]]) = v}
      have(v) == {k \in 1..Len(rawMoves) : Proj(rawMoves[k]) = v}
  IN  /\ \A k \in 1..Len(rawMoves) :
           Cardinality(have(Proj(rawMoves[k]))) = Cardinality(want(Proj(rawMoves[k])))
      /\ \A w \in wanted :
           LET v == Proj([potentialMoves[w[1]] EXCEPT !.from = w[2]])
           IN  Cardinality(have(v)) = Cardinality(want(v))

\* C6 as claimed: on the player's turn, before conflict resolution, the
\* resolver returns for each template exactly one move per occupied square
\* that matches the piece pattern and the from-pattern and is legal.
C6_Original == (Resolved /\ playersMove) => RawIsExactly(ListedOrigins)

\* C6 amended: the same, except that a pawn is left out when the template's
\* destination is on rank 1 or 8 and the template has no promotion piece.
C6_ResolverExact == (Resolved /\ playersMove) => RawIsExactly(ActionableOrigins)

\* C6 witness: "Nf3" with knights on b1 and g1, only g1 to f3 legal, gives
\* exactly one move, from g1.
C6_Witness ==
  /\ phase = "resolved" /\ playersMove
  /\ inputText = <<"N", "f", "3">> /\ pieces = KnightsLayout
  /\ <<Sq(7, 1), Sq(6, 3)>> \in legalMoves
  /\ <<Sq(2, 1), Sq(6, 3)>> \notin legalMoves
  /\ Len(rawMoves) = 1 /\ rawMoves[1].from = Sq(7, 1)

RawKinds == {rawMoves[k].piece : k \in 1..Len(rawMoves)}

\* C4 as claimed: whenever the set of kinds among the candidates is exactly
\* {bishop, pawn}, the result holds a pawn candidate and no bishop candidate.
C4_Original ==
  (Resolved /\ RawKinds = {"b", "p"}) =>
     /\ \E k \in 1..Len(legalResult) : legalResult[k].piece = "p"
     /\ \A k \in 1..Len(legalResult) : legalResult[k].piece # "b"

\* C4 amended: when the candidates are exactly two, one bishop move and one
\* pawn move, the result is the pawn move alone; any other candidate list,
\* also one of several bishops or pawns, is returned unchanged.
C4_TwoCandidateRule ==
  Resolved =>
    IF Len(rawMoves) = 2 /\ RawKinds = {"b", "p"}
    THEN \E k \in 1..2 : rawMoves[k].piece = "p" /\ legalResult = <<rawMoves[k]>>
    ELSE legalResult = rawMoves

\* C4 witness: a pawn and a bishop candidate resolved to the pawn alone
C4_Witness ==
  /\ phase = "resolved"
  /\ Len(rawMoves) = 2 /\ RawKinds = {"b", "p"}
  /\ Len(legalResult) = 1 /\ legalResult[1].piece = "p"

\* C5: a move the resolver returned, written as from + to + promotion,
\* parsed and resolved again on the same layout and oracle, gives exactly
\* that one move, identical in piece, from, to and promotionPiece.
C5_RoundTrip == phase = "reparsed" => rtResult = <<rtMove>>

\* a move to rank 1 or 8 that names no promotion piece
BarePromotion(m) == m.to[2] \in {"1", "8"} /\ m.promotionPiece = NoPromotion

\* C12: no move the resolver returns, before or after conflict resolution,
\* is a move of a pawn to rank 1 or 8 without promotion piece, and each
\* returned move carries the promotion piece of a template with its
\* destination (none is filled in).
C12_NoBarePromotion ==
  Resolved =>
    \A ms \in {rawMoves, legalResult} : \A i \in 1..Len(ms) :
      /\ BarePromotion(ms[i]) => "p" \notin KindAt(ms[i].from)
      /\ \E k \in 1..Len(potentialMoves) :
           /\ potentialMoves[k].to = ms[i].to
           /\ potentialMoves[k].promotionPiece = ms[i].promotionPiece

\* C12 witness: "e7e8" with a pawn on e7 and e7 to e8 legal on the player's
\* turn resolves to no move
C12_Witness ==
  /\ Resolved /\ playersMove /\ pieces = PromotionLayout
  /\ inputText = <<"e", "7", "e", "8">>
  /\ <<Sq(5, 7), Sq(5, 8)>> \in legalMoves
  /\ Len(potentialMoves) = 1 /\ legalResult = <<>>

(***************************************************************************)
(* Claims about the keyboard disambiguator                                 *)
(***************************************************************************)
\* the pawn auto-promotion: all candidates start on one square and one of
\* them promotes to a queen
QueenAutoPromotion ==
  /\ \A i \in 1..Len(kbMoves) : kbMoves[i].from = kbMoves[1].from
  /\ \E i \in 1..Len(kbMoves) : kbMoves[i].promotionPiece = "q"

\* C1: for a pawn and GENERAL, with no queen auto-promotion, the one
\* candidate that keeps its file is returned; none is returned when no
\* candidate or more than one keeps its file.
C1_PawnGeneral ==
  (phase = "narrowed" /\ kbPiece = "p" /\ kbDirection = GENERAL
     /\ ~QueenAutoPromotion) =>
    LET straight == {i \in 1..Len(kbMoves) : kbMoves[i].from[1] = kbMoves[i].to[1]}
    IN  IF Cardinality(straight) = 1
        THEN narrowed = <<kbMoves[CHOOSE i \in straight : TRUE]>>
        ELSE narrowed = <<>>

\* C10: for a knight, rook or queen the result is the only candidate that
\* starts on the square registered for (piece, direction); it is none when no
\* or several candidates start there and when nothing is registered.
C10_RegisteredOrigin ==
  (phase = "narrowed" /\ kbPiece \in {"n", "r", "q"}) =>
    IF kbPiece \in DOMAIN pieceMap /\ kbDirection \in DOMAIN pieceMap[kbPiece]
    THEN LET there == {i \in 1..Len(kbMoves) :
                         kbMoves[i].from = pieceMap[kbPiece][kbDirection]}
         IN  /\ Cardinality(there) = 1 =>
                  narrowed = <<kbMoves[CHOOSE i \in there : TRUE]>>
             /\ Cardinality(there) # 1 => narrowed = <<>>
    ELSE narrowed = <<>>

\* C10 witness: rook candidates from a4 and h1, direction RIGHT, rook.RIGHT
\* registered on h1: the move from h1 is returned
C10_Witness ==
  /\ phase = "narrowed" /\ kbPiece = "r" /\ kbDirection = RIGHT
  /\ HasEntry(pieceMap, "r", RIGHT) /\ pieceMap["r"][RIGHT] = Sq(8, 1)
  /\ HasEntry(pieceMap, "r", GENERAL) /\ pieceMap["r"][GENERAL] = Sq(1, 4)
  /\ {kbMoves[i].from : i \in 1..Len(kbMoves)} = {Sq(1, 4), Sq(8, 1)}
  /\ Len(narrowed) = 1 /\ narrowed[1].from = Sq(8, 1)

\* the other lateral direction
Mirror(direction) == IF direction = LEFT THEN RIGHT ELSE LEFT

\* the candidates that stand on the lower files (toLower) or on the higher
\* files of their destination
ComingFrom(toLower) ==
  {i \in 1..Len(kbMoves) :
     IF toLower
     THEN FileIndex(kbMoves[i].from[1]) < FileIndex(kbMoves[i].to[1])
     ELSE FileIndex(kbMoves[i].from[1]) > FileIndex(kbMoves[i].to[1])}

\* the one candidate of a set of indices, none when the set has no or
\* several members
NarrowedIsOnly(hits) ==
  IF Cardinality(hits) = 1 THEN narrowed = <<kbMoves[CHOOSE i \in hits : TRUE]>>
  ELSE narrowed = <<>>

PawnLateral ==
  /\ phase = "narrowed" /\ kbPiece = "p" /\ kbDirection \in {LEFT, RIGHT}
  /\ ~QueenAutoPromotion

\* the result for the other direction on the board turned round
MirroredResult ==
  narrowDownMoves(pieceMap, kbMoves, kbPiece, Mirror(kbDirection), ~flipped)

\* C11 as stated: for a pawn and LEFT or RIGHT the result is the only
\* candidate whose file changes toward the selected side as the player sees
\* the board (LEFT on a board not flipped: toward the a-file), and the result
\* equals that of the other direction on the flipped board.
C11_Original ==
  PawnLateral =>
    /\ NarrowedIsOnly(ComingFrom((kbDirection = RIGHT) = ~flipped))
    /\ narrowed = MirroredResult

\* C11: for a pawn and LEFT or RIGHT, with no queen auto-promotion, the
\* result is the only candidate that comes from the selected side of its
\* destination as the player sees the board (LEFT on a board not flipped:
\* from a lower file), none when no or several candidates do; the result for
\* (LEFT, flipped) equals that for (RIGHT, not flipped) and the result for
\* (RIGHT, flipped) equals that for (LEFT, not flipped).
C11_PawnFromSide ==
  PawnLateral =>
    /\ NarrowedIsOnly(ComingFrom((kbDirection = LEFT) = ~flipped))
    /\ narrowed = MirroredResult

\* C11 witness: pawns on d3 and f3 that can both take on e4, LEFT on a board
\* not flipped: the pawn from d3 is returned
C11_Witness ==
  /\ PawnLateral /\ kbDirection = LEFT /\ ~flipped
  /\ {kbMoves[i].from : i \in 1..Len(kbMoves)} = {Sq(4, 3), Sq(6, 3)}
  /\ Len(narrowed) = 1 /\ narrowed[1].from = Sq(4, 3)

(***************************************************************************)
(* Claims about the directional piece map                                  *)
(***************************************************************************)
OwnSquares(kind) ==
  {pieces[i].area : i \in {j \in 1..Len(pieces) :
                             pieces[j].color = playingAs /\ pieces[j].type = kind}}

\* a comes before b in (file, then rank) order as the player sees the board:
\* files from the player's left, then ranks from the top
SeenBefore(a, b) ==
  LET fa == FileIndex(a[1])
      fb == FileIndex(b[1])
      ra == RankIndex(a[2])
      rb == RankIndex(b[2])
  IN  IF playingAs = 1
      THEN fa < fb \/ (fa = fb /\ ra > rb)
      ELSE fa > fb \/ (fa = fb /\ ra < rb)

\* C7: after construction the map registers, for rook, knight and queen of
\* the playing side, the first piece in the player's (file, then rank) order
\* as GENERAL and the last one, if it is another piece, as RIGHT, and nothing
\* else; on the starting layout for the first player it is exactly
\* rook {GENERAL a1, RIGHT h1}, knight {GENERAL b1, RIGHT g1}, queen {GENERAL d1}.
C7_InitialMap ==
  (phase = "game" /\ nMoves = 0) =>
    /\ DOMAIN pieceMap = {k \in {"r", "n", "q"} : OwnSquares(k) # {}}
    /\ \A k \in DOMAIN pieceMap :
         LET own == OwnSquares(k)
             first == CHOOSE a \in own : \A b \in own \ {a} : SeenBefore(a, b)
             last == CHOOSE a \in own : \A b \in own \ {a} : SeenBefore(b, a)
         IN  /\ DOMAIN pieceMap[k] =
                  IF Cardinality(own) = 1 THEN {GENERAL} ELSE {GENERAL, RIGHT}
             /\ pieceMap[k][GENERAL] = first
             /\ Cardinality(own) > 1 => pieceMap[k][RIGHT] = last
    /\ (pieces = StartLayout /\ playingAs = 1) =>
         pieceMap = [k \in {"r", "n", "q"} |->
                       CASE k = "r" -> [d \in {GENERAL, RIGHT} |->
                                          IF d = GENERAL THEN Sq(1, 1) ELSE Sq(8, 1)]
                         [] k = "n" -> [d \in {GENERAL, RIGHT} |->
                                          IF d = GENERAL THEN Sq(2, 1) ELSE Sq(7, 1)]
                         [] OTHER -> [d \in {GENERAL} |-> Sq(4, 1)]]

\* C7 witness: the adapter constructed on the starting layout, playing white
C7_Witness ==
  /\ phase = "game" /\ nMoves = 0 /\ pieces = StartLayout /\ playingAs = 1
  /\ pieceMap["r"][RIGHT] = Sq(8, 1) /\ DOMAIN pieceMap["q"] = {GENERAL}

Handled == phase = "game" /\ nMoves > 0

IsCastling(san) == san \in {"O-O", "O-O-O", "O-O+", "O-O-O+", "O-O#", "O-O-O#"}
IsKingSideCastling(san) == san \in {"O-O", "O-O+", "O-O#"}

\* C3: after an own castling move, whatever mark its notation carries, the
\* rook entry is rewritten to the square next to the king's destination (f or
\* d file of the king's rank): the only rook entry if there is exactly one,
\* otherwise each entry on the king's rank on the castling side; all other
\* entries are unchanged.
C3_CastlingRook ==
  (Handled /\ lastMove.color = playingAs /\ IsCastling(lastMove.san)
     /\ "r" \in DOMAIN prevPieceMap) =>
    LET kingSide == IsKingSideCastling(lastMove.san)
        kingFile == FileIndex(lastMove.to[1])
        rookSquare == <<IF kingSide THEN "f" ELSE "d", lastMove.to[2]>>
        rooks == prevPieceMap["r"]
        castled(d) ==
          \/ Cardinality(DOMAIN rooks) = 1
          \/ /\ rooks[d][2] = lastMove.to[2]
             /\ IF kingSide THEN FileIndex(rooks[d][1]) > kingFile
                ELSE FileIndex(rooks[d][1]) < kingFile
    IN  pieceMap = [prevPieceMap EXCEPT !["r"] =
                      [d \in DOMAIN rooks |->
                         IF castled(d) THEN rookSquare ELSE rooks[d]]]

\* C8: an own move that is no castling rewrites to the destination the
\* entries of the moved kind that hold the origin and leaves the rest of the
\* map as it was; the map is unchanged when the kind is not tracked or no
\* entry holds the origin.
C8_OwnMoveFrame ==
  (Handled /\ lastMove.color = playingAs /\ ~IsCastling(lastMove.san)) =>
    /\ DOMAIN pieceMap = DOMAIN prevPieceMap
    /\ \A k \in DOMAIN pieceMap :
         /\ DOMAIN pieceMap[k] = DOMAIN prevPieceMap[k]
         /\ \A d \in DOMAIN pieceMap[k] :
              pieceMap[k][d] =
                IF k = lastMove.piece /\ prevPieceMap[k][d] = lastMove.from
                THEN lastMove.to ELSE prevPieceMap[k][d]

\* C8 witness: a1 to a4 reported on the initial map: rook.GENERAL is a4 and
\* rook.RIGHT is still h1
C8_Witness ==
  /\ Handled /\ nMoves = 1 /\ playingAs = 1 /\ lastMove.color = 1
  /\ lastMove.piece = "r" /\ lastMove.from = Sq(1, 1) /\ lastMove.to = Sq(1, 4)
  /\ prevPieceMap["r"][GENERAL] = Sq(1, 1)
  /\ pieceMap["r"][GENERAL] = Sq(1, 4) /\ pieceMap["r"][RIGHT] = Sq(8, 1)

\* C9: a move of the other side that captures a piece deletes one entry of
\* the captured kind that holds the destination, if the kind is tracked and
\* there is such an entry, and changes nothing else; any other move of the
\* other side leaves the map unchanged.
C9_CaptureFrame ==
  (Handled /\ lastMove.color # playingAs) =>
    LET kind == toLowerCase(lastMove.capturedStr)
        hit == /\ lastMove.capturedStr # ""
               /\ kind \in DOMAIN prevPieceMap
               /\ \E d \in DOMAIN prevPieceMap[kind] :
                    prevPieceMap[kind][d] = lastMove.to
    IN  IF hit
        THEN \E d \in DOMAIN prevPieceMap[kind] :
               /\ prevPieceMap[kind][d] = lastMove.to
               /\ pieceMap = [prevPieceMap EXCEPT ![kind] =
                                [e \in DOMAIN @ \ {d} |-> @[e]]]
        ELSE pieceMap = prevPieceMap

\* C9 witness: the rook registered as RIGHT is taken: its entry is gone and
\* the GENERAL entry is as before
C9_Witness ==
  /\ Handled /\ lastMove.color # playingAs
  /\ toLowerCase(lastMove.capturedStr) = "r"
  /\ HasEntry(prevPieceMap, "r", RIGHT) /\ prevPieceMap["r"][RIGHT] = lastMove.to
  /\ HasEntry(prevPieceMap, "r", GENERAL)
  /\ DOMAIN pieceMap["r"] = {GENERAL}
  /\ pieceMap["r"][GENERAL] = prevPieceMap["r"][GENERAL]


(***************************************************************************)
(* Claims about go and goKbAndMouse                                        *)
(***************************************************************************)
Went == phase = "went"
Pressed == phase = "pressed"

\* the call of board.makeMove for a move
CallOf(m) == [from |-> m.from, to |-> m.to, promotionPiece |-> m.promotionPiece]

\* the candidates the operation resolved
Candidates == IF Went THEN legalResult ELSE kbMoves

\* the one candidate left after resolution and, for a key, disambiguation:
\* <<m>>, or <<>> when there is none
Survivor ==
  IF Went THEN (IF Len(legalResult) = 1 THEN legalResult ELSE <<>>)
  ELSE IF Len(kbMoves) = 1 THEN kbMoves
  ELSE IF Len(kbMoves) > 1 THEN narrowed
  ELSE <<>>

MoveExecuted == Len(made) = 1 /\ message = ""
AmbiguousReport == made = <<>> /\ message = "ambiguousMove"
IllegalReport == made = <<>> /\ message \in {"incorrectMove", "illegalMove"}

\* C13: go and goKbAndMouse end in exactly one of: one move executed, an
\* ambiguous report, an illegal or unrecognized report. A move is executed
\* only if one candidate survived, and it is that candidate; ambiguous is
\* reported only if more than one candidate was resolved; no candidate, no
\* template, or for go not the player's turn, give the illegal report.
C13_ThreeOutcomes ==
  (Went \/ Pressed) =>
    /\ MoveExecuted \/ AmbiguousReport \/ IllegalReport
    /\ MoveExecuted => (Survivor # <<>> /\ made = <<CallOf(Survivor[1])>>)
    /\ AmbiguousReport => Len(Candidates) > 1
    /\ Len(Candidates) = 0 => IllegalReport
    /\ (Went /\ (potentialMoves = <<>> \/ ~playersMove)) => IllegalReport

\* C13 witness: a key resolves several candidates, the disambiguator picks
\* one and it is executed
C13_Witness ==
  /\ Pressed /\ Len(kbMoves) > 1 /\ narrowed # <<>>
  /\ made = <<CallOf(narrowed[1])>> /\ message = ""

\* C16: narrowDownMoves is never invoked with a bishop or a king: in every
\* keyboard gesture, whatever the key, the position and the number of
\* resolved candidates, it is invoked for a pawn, knight, rook or queen only.
C16_NeverForBishopOrKing ==
  Pressed => \A i \in 1..Len(narrowCall) : narrowCall[i] \in {"p", "n", "r", "q"}

\* C20: board.makeMove is called for (from, to) only if the oracle allows
\* (from, to); when the oracle does not allow the selected move, the
\* illegal-move message is posted and the board receives no move.
C20_ExecutedOnlyIfLegal ==
  (Went \/ Pressed) =>
    /\ \A i \in 1..Len(made) : <<made[i].from, made[i].to>> \in legalMoves
    /\ (Survivor # <<>> /\ <<Survivor[1].from, Survivor[1].to>> \notin legalMoves) =>
         (made = <<>> /\ message = "illegalMove")

\* C20 witness: off turn a key selects a premove the oracle does not allow
C20_Witness ==
  /\ Pressed /\ ~playersMove /\ Survivor # <<>>
  /\ <<Survivor[1].from, Survivor[1].to>> \notin legalMoves
  /\ made = <<>> /\ message = "illegalMove"

(***************************************************************************)
(* Claims about the premove resolver                                       *)
(***************************************************************************)
\* the entries of the enumeration listed for one template: piece and origin
\* match its patterns, destination and promotion are its own
ListedFor(t) ==
  LET listed == SelectSeq(premoves, LAMBDA e :
                  /\ e.piece # "" /\ (t.piece = "." \/ t.piece = e.piece)
                  /\ (t.from[1] = "." \/ t.from[1] = e.from[1])
                  /\ (t.from[2] = "." \/ t.from[2] = e.from[2])
                  /\ e.to = t.to
                  /\ e.promotion = t.promotionPiece)
  IN  [i \in 1..Len(listed) |->
         Move(listed[i].piece, listed[i].from, listed[i].to, listed[i].promotion)]

RECURSIVE ListedPremoves(_)
ListedPremoves(k) ==
  IF k > Len(potentialMoves) THEN <<>>
  ELSE ListedFor(potentialMoves[k]) \o ListedPremoves(k + 1)

\* carries that letter; the algebraic path contributes no template.
C15_UciTemplate ==
  phase = "parsed" =>
    /\ potentialMoves =
         <<[piece |-> ".", from |-> SubSeq(inputText, 1, 2),
            to |-> SubSeq(inputText, 3, 4),
            promotionPiece |-> IF Len(inputText) = 5 THEN inputText[5]
                               ELSE NoPromotion]>>
    /\ parseAlgebraic(inputText) = <<>>

\* C15 witness: "b7b8q" parsed to the one template from b7 to b8 with
\* promotion piece q
C15_Witness ==
  /\ phase = "parsed" /\ inputText = <<"b", "7", "b", "8", "q">>
  /\ Len(potentialMoves) = 1 /\ potentialMoves[1].promotionPiece = "q"
  /\ potentialMoves[1].from = Sq(2, 7) /\ potentialMoves[1].to = Sq(2, 8)

(***************************************************************************)
(* Claims about the life of the directional piece map                      *)
(***************************************************************************)
\* C17: whenever a game starts on the board, on a new adapter or on an
\* element getBoard already holds an adapter for, the map is the one built
\* from scratch from the layout and the side of that game.
C17_RebuiltOnNewGame ==
  (phase = "game" /\ lastMove = NoEvent) =>
    pieceMap = initializePieceMap(pieces, playingAs)

\* C18: when the draw event of a move is dispatched the map holds the update
\* of that move, and the map a keyboard gesture reads holds the update of
\* every move reported before the gesture.
C18_UpdateBeforeRead ==
  /\ (nMoves > 0 /\ ~onMoveThrows(prevPieceMap, playingAs, lastMove)) =>
       drawSeen = onMove(prevPieceMap, playingAs, lastMove)
  /\ kbSeen # NoRead =>
       /\ kbSeen.at = nMoves
       /\ kbSeen.map = pieceMap
       /\ nMoves > 0 => kbSeen.map = onMove(prevPieceMap, playingAs, lastMove)

\* C18 witness: a gesture reads the map after a move that changed it
C18_Witness ==
  /\ phase = "pressed" /\ kbSeen # NoRead /\ nMoves > 0
  /\ pieceMap # prevPieceMap
  /\ kbSeen.map = pieceMap /\ drawSeen = pieceMap

\* C19: every entry of the map names a square on which a piece of that kind
\* of the playing side stands, and no two directions of a kind name the same
\* square.
C19_EntriesOccupied ==
  phase = "game" =>
    \A k \in DOMAIN pieceMap :
      /\ \A d \in DOMAIN pieceMap[k] : pieceMap[k][d] \in OwnSquares(k)
      /\ \A d1, d2 \in DOMAIN pieceMap[k] :
           d1 # d2 => pieceMap[k][d1] # pieceMap[k][d2]
====
